---- MODULE Spec2Model ----
(***************************************************************************)
(* A model of src/main.rs: the file-size formatter.                        *)
(*                                                                         *)
(* The program reads two arguments (a magnitude and a unit), validates     *)
(* them, converts the pair to a u64 byte count through f64 arithmetic and  *)
(* prints the count in four units.  The arithmetic is modelled bit for bit *)
(* (IEEE 754 binary64, round to nearest even; saturating f64 -> u64        *)
(* casts), on naturals kept as digit sequences, because the checker's own  *)
(* integers are 32 bits wide.                                              *)
(***************************************************************************)
EXTENDS Integers, Sequences, FiniteSets, TLC

(***************************************************************************)
(* Naturals of any size: little-endian digit sequences in base 2^15,       *)
(* without leading zero digits; <<>> is 0.                                 *)
(***************************************************************************)
DigitBits == 15
Base == 2^DigitBits

Max(a, b) == IF a >= b THEN a ELSE b
Min(a, b) == IF a <= b THEN a ELSE b

RECURSIVE Norm(_)
Norm(x) ==
    IF x = <<>> THEN x
    ELSE IF x[Len(x)] = 0 THEN Norm(SubSeq(x, 1, Len(x) - 1)) ELSE x

RECURSIVE NatOf(_)
NatOf(n) == IF n = 0 THEN <<>> ELSE <<n % Base>> \o NatOf(n \div Base)

RECURSIVE Zeros(_)
Zeros(k) == IF k <= 0 THEN <<>> ELSE <<0>> \o Zeros(k - 1)

\* x * m + c, for 0 <= m, c < Base
RECURSIVE MulSmallC(_, _, _)
MulSmallC(x, m, c) ==
    IF x = <<>> THEN NatOf(c)
    ELSE LET t == x[1] * m + c
         IN  <<t % Base>> \o MulSmallC(Tail(x), m, t \div Base)

MulSmall(x, m) == Norm(MulSmallC(x, m, 0))

RECURSIVE AddC(_, _, _)
AddC(x, y, c) ==
    IF x = <<>> /\ y = <<>> THEN NatOf(c)
    ELSE LET a == IF x = <<>> THEN 0 ELSE x[1]
             b == IF y = <<>> THEN 0 ELSE y[1]
             t == a + b + c
         IN  <<t % Base>> \o AddC(IF x = <<>> THEN x ELSE Tail(x),
                                  IF y = <<>> THEN y ELSE Tail(y),
                                  t \div Base)

Add(x, y) == AddC(x, y, 0)

\* x - 1, for x > 0
RECURSIVE DecC(_)
DecC(x) == IF x[1] > 0 THEN <<x[1] - 1>> \o Tail(x)
           ELSE <<Base - 1>> \o DecC(Tail(x))

Pred(x) == Norm(DecC(x))

RECURSIVE MulBig(_, _)
MulBig(x, y) ==
    IF x = <<>> \/ y = <<>> THEN <<>>
    ELSE Add(MulSmall(x, y[1]),
             LET r == MulBig(x, Tail(y)) IN IF r = <<>> THEN r ELSE <<0>> \o r)

\* [q, r] with x = q * d + r, 0 <= r < d, for 0 < d <= Base
RECURSIVE DivSmallR(_, _)
DivSmallR(x, d) ==
    IF x = <<>> THEN [q |-> <<>>, r |-> 0]
    ELSE LET hi == DivSmallR(Tail(x), d)
             t  == hi.r * Base + x[1]
         IN  [q |-> <<t \div d>> \o hi.q, r |-> t % d]

DivSmall(x, d) == LET v == DivSmallR(x, d) IN [q |-> Norm(v.q), r |-> v.r]

\* one digit of a division by d < 2^30, bit by bit: [q, r] for (r, digit)
RECURSIVE DivBits(_, _, _, _, _)
DivBits(r, digit, d, k, q) ==
    IF k = 0 THEN [q |-> q, r |-> r]
    ELSE LET b == (digit \div 2^(k - 1)) % 2
             t == 2 * r + b
         IN  IF t >= d THEN DivBits(t - d, digit, d, k - 1, 2 * q + 1)
             ELSE DivBits(t, digit, d, k - 1, 2 * q)

\* [q, r] with x = q * d + r, 0 <= r < d, for 0 < d < 2^30
RECURSIVE DivIntR(_, _)
DivIntR(x, d) ==
    IF x = <<>> THEN [q |-> <<>>, r |-> 0]
    ELSE LET hi == DivIntR(Tail(x), d)
             s  == DivBits(hi.r, x[1], d, DigitBits, 0)
         IN  [q |-> <<s.q>> \o hi.q, r |-> s.r]

DivInt(x, d) == LET v == DivIntR(x, d) IN [q |-> Norm(v.q), r |-> v.r]

RECURSIVE CmpAt(_, _, _)
CmpAt(x, y, i) ==
    IF i = 0 THEN 0
    ELSE IF x[i] # y[i] THEN (IF x[i] < y[i] THEN -1 ELSE 1)
    ELSE CmpAt(x, y, i - 1)

Cmp(x, y) ==
    IF Len(x) # Len(y) THEN (IF Len(x) < Len(y) THEN -1 ELSE 1)
    ELSE CmpAt(x, y, Len(x))

Leq(x, y) == Cmp(x, y) <= 0
Less(x, y) == Cmp(x, y) < 0

SmallBitLen(d) == CHOOSE k \in 1..DigitBits : 2^(k - 1) <= d /\ d < 2^k

BitLen(x) == IF x = <<>> THEN 0
             ELSE DigitBits * (Len(x) - 1) + SmallBitLen(x[Len(x)])

\* bit i of x, counted from 0 at the low end
Bit(x, i) ==
    LET j == i \div DigitBits + 1
    IN  IF j > Len(x) THEN 0 ELSE (x[j] \div 2^(i % DigitBits)) % 2

\* whether the bits of x below bit i are all 0
LowZero(x, i) ==
    LET j == i \div DigitBits
    IN  /\ \A k \in 1..Min(j, Len(x)) : x[k] = 0
        /\ (j + 1 <= Len(x) => x[j + 1] % 2^(i % DigitBits) = 0)

ShiftLeft(x, s) ==
    IF x = <<>> THEN x
    ELSE Zeros(s \div DigitBits) \o MulSmall(x, 2^(s % DigitBits))

\* floor(x / 2^s)
ShiftRight(x, s) ==
    LET j == s \div DigitBits
    IN  IF j >= Len(x) THEN <<>>
        ELSE DivSmall(SubSeq(x, j + 1, Len(x)), 2^(s % DigitBits)).q

\* the number of 0 bits at the low end of x > 0
RECURSIVE TrailingZeros(_)
TrailingZeros(x) ==
    IF x[1] = 0 THEN DigitBits + TrailingZeros(Tail(x))
    ELSE CHOOSE k \in 0..(DigitBits - 1) :
            x[1] % 2^k = 0 /\ (x[1] \div 2^k) % 2 = 1

\* x < 2^30 as an integer
IntOf(x) == IF x = <<>> THEN 0
            ELSE IF Len(x) = 1 THEN x[1] ELSE x[1] + Base * x[2]

RECURSIVE MulPow10(_, _)
MulPow10(x, k) == IF k <= 0 THEN x ELSE MulPow10(MulSmall(x, 10), k - 1)

\* [q, sticky]: floor(x / 10^k), and whether anything was cut off
RECURSIVE DivPow10(_, _)
DivPow10(x, k) ==
    IF k <= 0 THEN [q |-> x, sticky |-> FALSE]
    ELSE LET v == DivSmall(x, 10)
             w == DivPow10(v.q, k - 1)
         IN  [q |-> w.q, sticky |-> w.sticky \/ v.r # 0]

\* the decimal digits of x, most significant first; 0 is <<0>>
RECURSIVE DecDigitsR(_)
DecDigitsR(x) ==
    IF x = <<>> THEN <<>>
    ELSE LET v == DivSmall(x, 10) IN Append(DecDigitsR(v.q), v.r)

DecDigits(x) == IF x = <<>> THEN <<0>> ELSE DecDigitsR(x)

\* the natural a decimal digit sequence denotes
RECURSIVE OfDecDigits(_)
OfDecDigits(ds) ==
    IF ds = <<>> THEN <<>>
    ELSE Norm(MulSmallC(OfDecDigits(SubSeq(ds, 1, Len(ds) - 1)), 10, ds[Len(ds)]))

(***************************************************************************)
(* f64: IEEE 754 binary64.  A finite value is man * 2^exp with man below   *)
(* 2^53 (and at least 2^52 unless the value is zero or subnormal); every   *)
(* operation rounds its exact result to nearest, ties to even.             *)
(***************************************************************************)
MantBits == 53
ExpMin == -1074
ExpMax == 971

F64Zero(neg) == [cls |-> "num", neg |-> neg, man |-> <<>>, exp |-> 0]
F64Inf(neg)  == [cls |-> "inf", neg |-> neg, man |-> <<>>, exp |-> 0]
F64NaN       == [cls |-> "nan", neg |-> FALSE, man |-> <<>>, exp |-> 0]

\* x / 2^s (plus a little, when sticky) rounded to an integer, ties to even;
\* s >= 1 whenever sticky
RoundShift(x, s, sticky) ==
    IF s <= 0 THEN ShiftLeft(x, -s)
    ELSE LET q  == ShiftRight(x, s)
             g  == Bit(x, s - 1) = 1
             st == sticky \/ ~LowZero(x, s - 1)
             up == g /\ (st \/ Bit(q, 0) = 1)
         IN  IF up THEN Norm(Add(q, <<1>>)) ELSE q

\* the f64 nearest x * 2^e (plus a little, when sticky)
F64Round(neg, x, e, sticky) ==
    IF x = <<>> THEN F64Zero(neg)
    ELSE LET s  == Max(BitLen(x) - MantBits, ExpMin - e)
             m  == RoundShift(x, s, sticky)
             c  == BitLen(m) > MantBits
             mm == IF c THEN ShiftRight(m, 1) ELSE m
             ee == IF c THEN e + s + 1 ELSE e + s
         IN  IF mm = <<>> THEN F64Zero(neg)
             ELSE IF ee > ExpMax THEN F64Inf(neg)
             ELSE [cls |-> "num", neg |-> neg, man |-> mm, exp |-> ee]

\* u64 as f64
F64FromU64(n) == F64Round(FALSE, n, 0, FALSE)

\* an integer literal of the source as f64
F64Of(n) == F64Round(FALSE, NatOf(n), 0, FALSE)

\* a * b
F64Mul(a, b) ==
    IF a.cls = "nan" \/ b.cls = "nan" THEN F64NaN
    ELSE IF a.cls = "inf" \/ b.cls = "inf"
    THEN (IF (a.cls = "num" /\ a.man = <<>>) \/ (b.cls = "num" /\ b.man = <<>>)
          THEN F64NaN ELSE F64Inf(a.neg # b.neg))
    ELSE F64Round(a.neg # b.neg, MulBig(a.man, b.man), a.exp + b.exp, FALSE)

\* a / b, for a finite non-zero b whose mantissa has an odd part below 2^30
\* (every divisor of the program: 1e3, 1e6, 1e9)
F64Div(a, b) ==
    IF a.cls = "nan" THEN F64NaN
    ELSE IF a.cls = "inf" THEN F64Inf(a.neg # b.neg)
    ELSE IF a.man = <<>> THEN F64Zero(a.neg # b.neg)
    ELSE LET tz == TrailingZeros(b.man)
             d  == IntOf(ShiftRight(b.man, tz))
             k  == 2 * DigitBits + 4
             v  == DivInt(ShiftLeft(a.man, k), d)
         IN  F64Round(a.neg # b.neg, v.q, a.exp - k - (b.exp + tz), v.r # 0)

\* a >= 0.0 and a < 0.0 (both false of NaN; -0.0 >= 0.0)
F64GeZero(a) == \/ a.cls = "inf" /\ ~a.neg
                \/ a.cls = "num" /\ (~a.neg \/ a.man = <<>>)
F64LtZero(a) == \/ a.cls = "inf" /\ a.neg
                \/ a.cls = "num" /\ a.neg /\ a.man # <<>>

TwoTo64 == ShiftLeft(<<1>>, 64)
U64Max == Pred(TwoTo64)

\* a as u64: truncates toward zero, saturates, NaN is 0
F64ToU64(a) ==
    IF a.cls = "nan" THEN <<>>
    ELSE IF a.neg THEN <<>>
    ELSE IF a.cls = "inf" THEN U64Max
    ELSE IF a.man = <<>> THEN <<>>
    ELSE IF a.exp >= 64 THEN U64Max
    ELSE IF a.exp >= 0
    THEN LET v == ShiftLeft(a.man, a.exp)
         IN  IF Leq(TwoTo64, v) THEN U64Max ELSE v
    ELSE ShiftRight(a.man, -a.exp)

\* str::parse::<f64> of the decimal literal (-1)^neg * mant * 10^exp10
ParseDecimal(neg, mant, exp10) ==
    IF mant = 0 THEN F64Zero(neg)
    ELSE IF exp10 >= 0
    THEN F64Round(neg, MulPow10(NatOf(mant), exp10), 0, FALSE)
    ELSE LET k == 64 + 4 * (-exp10)
             v == DivPow10(ShiftLeft(NatOf(mant), k), -exp10)
         IN  F64Round(neg, v.q, -k, v.sticky)

\* format!("{:.2}", a) for a finite a >= 0: the integer digits and the two
\* fraction digits of a's exact value rounded to hundredths, ties to even
FormatFixed2(a) ==
    LET x == MulSmall(a.man, 100)
        h == IF a.man = <<>> THEN <<>>
             ELSE IF a.exp >= 0 THEN ShiftLeft(x, a.exp)
             ELSE RoundShift(x, -a.exp, FALSE)
        v == DivSmall(h, 100)
    IN  [int |-> DecDigits(v.q), frac |-> <<v.r \div 10, v.r % 10>>]

\* format!("{}", n) for a u64
FormatU64(n) == [int |-> DecDigits(n), frac |-> <<>>]

(***************************************************************************)
(* Texts.  An argument is a decimal literal (sign, digits, power of ten:   *)
(* "4.1" is 41 * 10^-1) or a word, a sequence of characters.               *)
(***************************************************************************)
Dec(neg, mant, exp10) ==
    [kind |-> "dec", neg |-> neg, mant |-> mant, exp10 |-> exp10, chars |-> <<>>]
Word(chars) ==
    [kind |-> "word", neg |-> FALSE, mant |-> 0, exp10 |-> 0, chars |-> chars]

LowerChar(c) ==
    CASE c = "B" -> "b" [] c = "E" -> "e" [] c = "F" -> "f" [] c = "G" -> "g"
      [] c = "I" -> "i" [] c = "K" -> "k" [] c = "M" -> "m" [] c = "N" -> "n"
      [] c = "S" -> "s" [] c = "T" -> "t" [] c = "Y" -> "y" [] c = "A" -> "a"
      [] OTHER -> c

UpperChar(c) ==
    CASE c = "b" -> "B" [] c = "e" -> "E" [] c = "f" -> "F" [] c = "g" -> "G"
      [] c = "i" -> "I" [] c = "k" -> "K" [] c = "m" -> "M" [] c = "n" -> "N"
      [] c = "s" -> "S" [] c = "t" -> "T" [] c = "y" -> "Y" [] c = "a" -> "A"
      [] OTHER -> c

\* str::to_lowercase
ToLowercase(t) == [t EXCEPT !.chars = [i \in DOMAIN t.chars |-> LowerChar(t.chars[i])]]

\* str::parse::<f64>: a decimal literal, or inf / infinity / nan in any case
\* and with an optional sign; anything else is an error
ParseF64(t) ==
    IF t.kind = "dec"
    THEN [ok |-> TRUE, val |-> ParseDecimal(t.neg, t.mant, t.exp10), err |-> ""]
    ELSE LET signed == t.chars # <<>> /\ t.chars[1] \in {"+", "-"}
             neg    == t.chars # <<>> /\ t.chars[1] = "-"
             body   == ToLowercase(Word(IF signed THEN Tail(t.chars) ELSE t.chars)).chars
         IN  IF body \in {<<"i", "n", "f">>, <<"i", "n", "f", "i", "n", "i", "t", "y">>}
             THEN [ok |-> TRUE, val |-> F64Inf(neg), err |-> ""]
             ELSE IF body = <<"n", "a", "n">>
             THEN [ok |-> TRUE, val |-> F64NaN, err |-> ""]
             ELSE [ok |-> FALSE, val |-> F64NaN,
                   err |-> IF t.chars = <<>>
                           THEN "cannot parse float from empty string"
                           ELSE "invalid float literal"]

(***************************************************************************)
(* Output: a stream is a sequence of pieces; println and writeln end what  *)
(* they write with a newline piece.                                        *)
(***************************************************************************)
Lit(str)  == [k |-> "lit", v |-> <<str>>]
Arg(t)    == [k |-> "arg", v |-> <<t>>]
Num(n)    == [k |-> "num", v |-> <<n>>]
NL        == [k |-> "nl", v |-> <<>>]

Println(stream, pieces) == stream \o pieces \o <<NL>>
Writeln(stream, pieces) == stream \o pieces \o <<NL>>

\* the lines of a stream: what stands before each newline
RECURSIVE LinesR(_, _)
LinesR(stream, cur) ==
    IF stream = <<>> THEN (IF cur = <<>> THEN <<>> ELSE <<cur>>)
    ELSE IF Head(stream).k = "nl" THEN <<cur>> \o LinesR(Tail(stream), <<>>)
    ELSE LinesR(Tail(stream), Append(cur, Head(stream)))

Lines(stream) == LinesR(stream, <<>>)

(***************************************************************************)
(* Constants and types of main.rs                                          *)
(***************************************************************************)
KB == 1000
MB == 1000000
GB == 1000000000

None == [some |-> FALSE, v |-> <<>>]
Some(x) == [some |-> TRUE, v |-> <<x>>]
Get(o) == o.v[1]

Bytes(n)     == [tag |-> "Bytes", u |-> n, f |-> F64Zero(FALSE)]
Kilobytes(x) == [tag |-> "Kilobytes", u |-> <<>>, f |-> x]
Megabytes(x) == [tag |-> "Megabytes", u |-> <<>>, f |-> x]
Gigabytes(x) == [tag |-> "Gigabytes", u |-> <<>>, f |-> x]

NegativeSizeMsg == "Invalid file size. Size cannot be a negative number."
InvalidUnitMsg == "Error: Invalid unit. Supported units: 'bytes', 'kb', 'mb', or 'gb'."

UnitBytes == <<"b", "y", "t", "e", "s">>
UnitKb == <<"k", "b">>
UnitMb == <<"m", "b">>
UnitGb == <<"g", "b">>

\* Sizes::from_bytes
from_bytes(size_in_bytes) ==
    LET x == F64FromU64(size_in_bytes)
    IN  [bytes     |-> <<Num(FormatU64(size_in_bytes)), Lit(" bytes")>>,
         kilobytes |-> <<Num(FormatFixed2(F64Div(x, F64Of(KB)))), Lit(" kb")>>,
         megabytes |-> <<Num(FormatFixed2(F64Div(x, F64Of(MB)))), Lit(" mb")>>,
         gigabytes |-> <<Num(FormatFixed2(F64Div(x, F64Of(GB)))), Lit(" gb")>>]

\* <Sizes as Display>::fmt
fmt(sizes) ==
    LET l1 == Writeln(<<>>, <<Lit("   bytes: ")>> \o sizes.bytes)
        l2 == Writeln(l1, <<Lit("   kilobytes: ")>> \o sizes.kilobytes)
        l3 == Writeln(l2, <<Lit("   megabytes: ")>> \o sizes.megabytes)
    IN  Writeln(l3, <<Lit("   gigabytes: ")>> \o sizes.gigabytes)

\* FileSize::new
new(size, unit) ==
    IF F64LtZero(size)
    THEN [ok |-> FALSE, val |-> Bytes(<<>>), err |-> NegativeSizeMsg]
    ELSE CASE unit = UnitBytes -> [ok |-> TRUE, val |-> Bytes(F64ToU64(size)), err |-> ""]
           [] unit = UnitKb    -> [ok |-> TRUE, val |-> Kilobytes(size), err |-> ""]
           [] unit = UnitMb    -> [ok |-> TRUE, val |-> Megabytes(size), err |-> ""]
           [] unit = UnitGb    -> [ok |-> TRUE, val |-> Gigabytes(size), err |-> ""]
           [] OTHER            -> [ok |-> FALSE, val |-> Bytes(<<>>), err |-> InvalidUnitMsg]

\* normalize_to_bytes with binary factors (1024 for 1000)
normalize_to_bytes_Binary(self) ==
    CASE self.tag = "Bytes"     -> self.u
      [] self.tag = "Kilobytes" -> F64ToU64(F64Mul(self.f, F64Of(1024)))
      [] self.tag = "Megabytes" -> F64ToU64(F64Mul(self.f, F64Of(1024 * 1024)))
      [] self.tag = "Gigabytes" -> F64ToU64(F64Mul(self.f, F64Of(1024 * 1024 * 1024)))

\* FileSize::normalize_to_bytes
normalize_to_bytes(self) ==
    CASE self.tag = "Bytes"     -> self.u
      [] self.tag = "Kilobytes" -> F64ToU64(F64Mul(self.f, F64Of(KB)))
      [] self.tag = "Megabytes" -> F64ToU64(F64Mul(self.f, F64Of(MB)))
      [] self.tag = "Gigabytes" -> F64ToU64(F64Mul(self.f, F64Of(GB)))

\* String::contains, on the two messages FileSize::new returns (neither
\* holds the other)
Contains(msg, pattern) == msg = pattern

(***************************************************************************)
(* main: the state of one run, and one step function per statement group.  *)
(* args[1] is the program name (args[0] of the source), args[2] and        *)
(* args[3] the two arguments.  exit_code is -1 while the process runs.     *)
(***************************************************************************)
VARIABLES pc, args, input, file_size, unit, result, size_in_bytes, sizes,
          stdout, stderr, exit_code

vars == <<pc, args, input, file_size, unit, result, size_in_bytes, sizes,
          stdout, stderr, exit_code>>

State ==
    [pc |-> pc, args |-> args, input |-> input, file_size |-> file_size,
     unit |-> unit, result |-> result, size_in_bytes |-> size_in_bytes,
     sizes |-> sizes, stdout |-> stdout, stderr |-> stderr,
     exit_code |-> exit_code]

Start(a) ==
    [pc |-> "check_args", args |-> a, input |-> <<>>, file_size |-> None,
     unit |-> None, result |-> None, size_in_bytes |-> None, sizes |-> None,
     stdout |-> <<>>, stderr |-> <<>>, exit_code |-> -1]

\* std::process::exit(code), after eprintln!(pieces)
Fail(s, pieces, code) ==
    [s EXCEPT !.stderr = Println(@, pieces), !.exit_code = code, !.pc = "done"]

\* CheckArgs with the count tested by "<" for "!=": more arguments pass
CheckArgs_AtLeast(s) ==
    IF Len(s.args) < 3
    THEN Fail(s, <<Lit("Usage: "), Arg(s.args[1]),
                   Lit(" <file_size> <unit (bytes/kb/mb/gb)>")>>, 2)
    ELSE [s EXCEPT !.input = <<Arg(s.args[2]), Lit(" "), Arg(s.args[3])>>,
                   !.pc = "parse_size"]

\* CheckArgs with the input echoed at once, before anything is validated
CheckArgs_EchoFirst(s) ==
    IF Len(s.args) # 3
    THEN Fail(s, <<Lit("Usage: "), Arg(s.args[1]),
                   Lit(" <file_size> <unit (bytes/kb/mb/gb)>")>>, 2)
    ELSE [s EXCEPT !.input = <<Arg(s.args[2]), Lit(" "), Arg(s.args[3])>>,
                   !.stdout = Println(@, <<Lit("file size ("), Arg(s.args[2]), Lit(" "),
                                           Arg(s.args[3]), Lit("):")>>),
                   !.pc = "parse_size"]

\* main.rs 79-87: the argument count, and the echoed input
CheckArgs(s) ==
    IF Len(s.args) # 3
    THEN Fail(s, <<Lit("Usage: "), Arg(s.args[1]),
                   Lit(" <file_size> <unit (bytes/kb/mb/gb)>")>>, 2)
    ELSE [s EXCEPT !.input = <<Arg(s.args[2]), Lit(" "), Arg(s.args[3])>>,
                   !.pc = "parse_size"]

\* ParseSize without the ">= 0.0" guard: the sign is left to FileSize::new
ParseSize_NoSignCheck(s) ==
    LET r == ParseF64(s.args[2])
    IN  IF r.ok
        THEN [s EXCEPT !.file_size = Some(r.val), !.pc = "validate_unit"]
        ELSE Fail(s, <<Lit("Invalid file size: "), Lit(r.err),
                       Lit(". Size cannot be a non-numeric value.")>>, 4)

\* main.rs 90-100: the magnitude
ParseSize(s) ==
    LET r == ParseF64(s.args[2])
    IN  IF r.ok /\ F64GeZero(r.val)
        THEN [s EXCEPT !.file_size = Some(r.val), !.pc = "validate_unit"]
        ELSE IF r.ok
        THEN Fail(s, <<Lit(NegativeSizeMsg)>>, 4)
        ELSE Fail(s, <<Lit("Invalid file size: "), Lit(r.err),
                       Lit(". Size cannot be a non-numeric value.")>>, 4)

\* ValidateUnit exiting with the magnitude's code
ValidateUnit_Exit4(s) ==
    LET lower == ToLowercase(s.args[3])
    IN  IF lower.kind = "word" /\ lower.chars \in {UnitBytes, UnitKb, UnitMb, UnitGb}
        THEN [s EXCEPT !.unit = Some(ToLowercase(s.args[3]).chars),
                       !.pc = "create"]
        ELSE Fail(s, <<Lit("Invalid unit: '"), Arg(s.args[3]),
                       Lit("'. Supported units: 'bytes', 'kb', 'mb', or 'gb'.")>>, 4)

\* ValidateUnit matching the unit as typed
ValidateUnit_CaseSensitive(s) ==
    IF s.args[3].kind = "word" /\ s.args[3].chars \in {UnitBytes, UnitKb, UnitMb, UnitGb}
    THEN [s EXCEPT !.unit = Some(s.args[3].chars), !.pc = "create"]
    ELSE Fail(s, <<Lit("Invalid unit: '"), Arg(s.args[3]),
                   Lit("'. Supported units: 'bytes', 'kb', 'mb', or 'gb'.")>>, 2)

\* ValidateUnit matching the lowercased unit but handing on the unit as typed
ValidateUnit_KeepsCase(s) ==
    LET lower == ToLowercase(s.args[3])
    IN  IF lower.kind = "word" /\ lower.chars \in {UnitBytes, UnitKb, UnitMb, UnitGb}
        THEN [s EXCEPT !.unit = Some(s.args[3].chars), !.pc = "create"]
        ELSE Fail(s, <<Lit("Invalid unit: '"), Arg(s.args[3]),
                       Lit("'. Supported units: 'bytes', 'kb', 'mb', or 'gb'.")>>, 2)

\* main.rs 103-112: the unit
ValidateUnit(s) ==
    LET lower == ToLowercase(s.args[3])
    IN  IF lower.kind = "word" /\ lower.chars \in {UnitBytes, UnitKb, UnitMb, UnitGb}
        THEN [s EXCEPT !.unit = Some(ToLowercase(s.args[3]).chars),
                       !.pc = "create"]
        ELSE Fail(s, <<Lit("Invalid unit: '"), Arg(s.args[3]),
                       Lit("'. Supported units: 'bytes', 'kb', 'mb', or 'gb'.")>>, 2)

\* main.rs 115-118 and 123-132: FileSize::new, and on Ok the byte count and
\* the four sizes
CreateFileSize(s) ==
    LET r == new(Get(s.file_size), Get(s.unit))
    IN  IF r.ok
        THEN LET n == normalize_to_bytes(r.val)
             IN  [s EXCEPT !.result = Some(r), !.size_in_bytes = Some(n),
                           !.sizes = Some(from_bytes(n)), !.pc = "print_input"]
        ELSE [Fail(s, <<Lit(r.err)>>,
                   IF Contains(r.err, NegativeSizeMsg) THEN 4 ELSE 2)
                EXCEPT !.result = Some(r)]

\* main.rs 119
PrintInput(s) ==
    [s EXCEPT !.stdout = Println(@, <<Lit("file size (")>> \o s.input \o <<Lit("):")>>),
              !.pc = "print_sizes"]

\* main.rs 120
PrintSizes(s) ==
    [s EXCEPT !.stdout = Println(@, fmt(Get(s.sizes))), !.pc = "exit"]

\* main.rs 121
ExitSuccess(s) == [s EXCEPT !.exit_code = 0, !.pc = "done"]

Step(s) ==
    CASE s.pc = "check_args"    -> CheckArgs(s)
      [] s.pc = "parse_size"    -> ParseSize(s)
      [] s.pc = "validate_unit" -> ValidateUnit(s)
      [] s.pc = "create"        -> CreateFileSize(s)
      [] s.pc = "print_input"   -> PrintInput(s)
      [] s.pc = "print_sizes"   -> PrintSizes(s)
      [] s.pc = "exit"          -> ExitSuccess(s)

\* a whole run of main
RECURSIVE Run(_)
Run(s) == IF s.pc = "done" THEN s ELSE Run(Step(s))

Becomes(t) ==
    /\ pc' = t.pc
    /\ args' = t.args
    /\ input' = t.input
    /\ file_size' = t.file_size
    /\ unit' = t.unit
    /\ result' = t.result
    /\ size_in_bytes' = t.size_in_bytes
    /\ sizes' = t.sizes
    /\ stdout' = t.stdout
    /\ stderr' = t.stderr
    /\ exit_code' = t.exit_code

MainCheckArgs    == pc = "check_args" /\ Becomes(CheckArgs(State))
MainParseSize    == pc = "parse_size" /\ Becomes(ParseSize(State))
MainValidateUnit == pc = "validate_unit" /\ Becomes(ValidateUnit(State))
MainCreate       == pc = "create" /\ Becomes(CreateFileSize(State))
MainPrintInput   == pc = "print_input" /\ Becomes(PrintInput(State))
MainPrintSizes   == pc = "print_sizes" /\ Becomes(PrintSizes(State))
MainExit         == pc = "exit" /\ Becomes(ExitSuccess(State))

(***************************************************************************)
(* The command lines checked                                               *)
(***************************************************************************)
MaxMantissa == 41
MaxFracDigits == 3
MaxExp10 == 11
MaxExtraArgs == 1

ProgName == Word(<<"f", "i", "l", "e", "s", "i", "z", "e">>)

Upper(w) == [i \in DOMAIN w |-> UpperChar(w[i])]
Title(w) == [i \in DOMAIN w |-> IF i = 1 THEN UpperChar(w[i]) ELSE w[i]]

UnitWords == {UnitBytes, UnitKb, UnitMb, UnitGb, <<"t", "b">>}
UnitTexts ==
    {Word(c) : c \in UNION {{w, Upper(w), Title(w)} : w \in UnitWords}}
      \cup {Word(<<>>), Dec(FALSE, 5, 0)}

Decimals ==
    {Dec(FALSE, m, e) : m \in 0..MaxMantissa, e \in (-MaxFracDigits)..MaxExp10}
      \cup {Dec(TRUE, m, e) : m \in 0..MaxMantissa, e \in (-MaxFracDigits)..0}

MagnitudeWords ==
    {Word(<<"i", "n", "f">>), Word(<<"-", "i", "n", "f">>), Word(<<"N", "a", "N">>),
     Word(<<"a", "b", "c">>), Word(<<>>), Word(UnitKb)}

MagnitudeTexts == Decimals \cup MagnitudeWords

SampleTexts == {Dec(FALSE, 5, 0), Dec(TRUE, 5, 0), Word(UnitKb), Word(<<"t", "b">>)}

ArgVectors ==
    {<<ProgName>>}
      \cup {<<ProgName, a>> : a \in SampleTexts}
      \cup {<<ProgName, m, u>> : m \in MagnitudeTexts, u \in UnitTexts}
      \cup {<<ProgName, a, b>> \o x :
              a \in SampleTexts, b \in SampleTexts,
              x \in UNION {[1..k -> SampleTexts] : k \in 1..MaxExtraArgs}}

Is(t) ==
    /\ pc = t.pc
    /\ args = t.args
    /\ input = t.input
    /\ file_size = t.file_size
    /\ unit = t.unit
    /\ result = t.result
    /\ size_in_bytes = t.size_in_bytes
    /\ sizes = t.sizes
    /\ stdout = t.stdout
    /\ stderr = t.stderr
    /\ exit_code = t.exit_code

Init == \E a \in ArgVectors : Is(Start(a))

Next ==
    \/ MainCheckArgs
    \/ MainParseSize
    \/ MainValidateUnit
    \/ MainCreate
    \/ MainPrintInput
    \/ MainPrintSizes
    \/ MainExit

Spec == Init /\ [][Next]_vars

(***************************************************************************)
(* Sizes::from_bytes on its own: a byte count is drawn and from_bytes      *)
(* applied to it.                                                          *)
(***************************************************************************)
MaxOffset == 130

ByteBases ==
    {<<>>, NatOf(MB), NatOf(GB), ShiftLeft(<<1>>, 53), ShiftLeft(<<1>>, 60),
     ShiftLeft(Pred(ShiftLeft(<<1>>, 49)), 15)}

ByteCounts == {Norm(Add(b, NatOf(d))) : b \in ByteBases, d \in 0..MaxOffset} \cup {U64Max}

CallFromBytes ==
    /\ pc = "from_bytes"
    /\ Becomes([State EXCEPT !.sizes = Some(from_bytes(Get(size_in_bytes))),
                             !.pc = "returned"])

InitFmt ==
    \E n \in ByteCounts :
        Is([Start(<<ProgName>>) EXCEPT !.pc = "from_bytes", !.size_in_bytes = Some(n)])

NextFmt == CallFromBytes

SpecFmt == InitFmt /\ [][NextFmt]_vars

(***************************************************************************)
(* What the claims speak of, said without the program's own functions      *)
(***************************************************************************)
Done == pc = "done"
TwoArgs == Len(args) = 3

SameIgnoringCase(a, b) ==
    /\ Len(a) = Len(b)
    /\ \A i \in 1..Len(a) :
          a[i] = b[i] \/ UpperChar(a[i]) = b[i] \/ a[i] = UpperChar(b[i])

\* the power of ten of the unit a text names in any case; -1 when it names none
UnitExp10(t) ==
    IF t.kind # "word" THEN -1
    ELSE IF SameIgnoringCase(t.chars, <<"b", "y", "t", "e", "s">>) THEN 0
    ELSE IF SameIgnoringCase(t.chars, <<"k", "b">>) THEN 3
    ELSE IF SameIgnoringCase(t.chars, <<"m", "b">>) THEN 6
    ELSE IF SameIgnoringCase(t.chars, <<"g", "b">>) THEN 9
    ELSE -1

RecognizedUnit(t) == UnitExp10(t) >= 0

\* what a magnitude text denotes (no text of the command lines checked is so
\* small that it parses to zero)
IsInfinityText(t) == t.kind = "word" /\ t.chars = <<"i", "n", "f">>
DenotesNegative(t) ==
    \/ t.kind = "dec" /\ t.neg /\ t.mant > 0
    \/ t.kind = "word" /\ t.chars = <<"-", "i", "n", "f">>
DenotesNonNegative(t) ==
    \/ t.kind = "dec" /\ (~t.neg \/ t.mant = 0)
    \/ IsInfinityText(t)

\* the outcome a finished run shows: its exit code and what it wrote to stderr
OutcomeOf(s) ==
    IF s.exit_code = 0 THEN "success"
    ELSE IF s.stderr = <<>> THEN "none"
    ELSE IF s.stderr[1] = Lit("Usage: ") THEN "usage"
    ELSE IF s.stderr[1] \in {Lit("Invalid unit: '"), Lit(InvalidUnitMsg)} THEN "unit"
    ELSE "magnitude"

Outcome == OutcomeOf(State)

\* the number a formatted field shows, in hundredths
Hundredths(field) ==
    LET n == field[1].v[1]
    IN  IF n.frac = <<>> THEN MulSmall(OfDecDigits(n.int), 100)
        ELSE OfDecDigits(n.int \o n.frac)

\* floor(mant * 10^e)
FloorDec(mant, e) ==
    IF e >= 0 THEN MulPow10(NatOf(mant), e) ELSE DivPow10(NatOf(mant), -e).q

\* |h / 100 - mant * 10^e| <= tol / 100 (strictly below, when strict)
Near(h, mant, e, tol, strict) ==
    LET j == Max(0, -(e + 2))
        a == MulPow10(h, j)
        b == MulPow10(NatOf(mant), e + 2 + j)
        t == MulPow10(NatOf(tol), j)
    IN  IF strict THEN Less(a, Add(b, t)) /\ Less(b, Add(a, t))
        ELSE Leq(a, Add(b, t)) /\ Leq(b, Add(a, t))

TwoTo53 == ShiftLeft(<<1>>, 53)

Succeeded == Done /\ exit_code = 0
DecimalRun == TwoArgs /\ args[2].kind = "dec" /\ RecognizedUnit(args[3])

\* the byte count the typed magnitude and unit stand for
ExpectedBytes == FloorDec(args[2].mant, args[2].exp10 + UnitExp10(args[3]))

\* the field of Sizes that shows the size in the unit typed
FieldOfUnit ==
    LET k == UnitExp10(args[3])
        z == Get(sizes)
    IN  IF k = 0 THEN z.bytes ELSE IF k = 3 THEN z.kilobytes
        ELSE IF k = 6 THEN z.megabytes ELSE z.gigabytes

(***************************************************************************)
(* The claims                                                              *)
(***************************************************************************)

\* C1, as stated: a run with two arguments whose unit is not recognized ends
\* in the unit error with exit code 2, whatever the magnitude text is.
C1_Original ==
    Done /\ TwoArgs /\ ~RecognizedUnit(args[3])
        => exit_code = 2 /\ Outcome = "unit"

\* C1, amended: with two arguments and an unrecognized unit, the run ends in
\* the unit error with exit code 2 when the magnitude text is a number >= 0,
\* and in the magnitude error with exit code 4 when it is not (negative, NaN
\* or non-numeric): the magnitude is validated first.
C1_Amended ==
    Done /\ TwoArgs /\ ~RecognizedUnit(args[3])
        => IF DenotesNonNegative(args[2])
           THEN exit_code = 2 /\ Outcome = "unit"
           ELSE exit_code = 4 /\ Outcome = "magnitude"

C1_Witness ==
    /\ Done /\ TwoArgs /\ ~RecognizedUnit(args[3])
    /\ DenotesNonNegative(args[2]) /\ args[2].mant > 0
    /\ exit_code = 2 /\ Outcome = "unit"

\* C2: a run with two arguments whose magnitude text is a negative number
\* ends in the magnitude error with exit code 4, whatever the unit text is.
C2_NegativeMagnitude ==
    Done /\ TwoArgs /\ DenotesNegative(args[2])
        => exit_code = 4 /\ Outcome = "magnitude" /\ unit = None

C2_Witness ==
    /\ Done /\ TwoArgs /\ DenotesNegative(args[2])
    /\ ~RecognizedUnit(args[3])
    /\ exit_code = 4

\* C3: a run whose argument count is not 2 ends in the usage error with exit
\* code 2, and neither the magnitude nor the unit is ever validated.
C3_UsageError ==
    ~TwoArgs
        => /\ pc \in {"check_args", "done"}
           /\ file_size = None /\ unit = None /\ result = None
           /\ (Done => exit_code = 2 /\ Outcome = "usage")

C3_Witness ==
    Done /\ Len(args) > 3 /\ exit_code = 2 /\ Outcome = "usage"

\* C4: on a run that fails (exit code 2 or 4) nothing is ever written to
\* standard output: once standard output holds anything, the run ends with 0.
C4_NoOutputOnFailure ==
    /\ exit_code \in {2, 4} => stdout = <<>>
    /\ stdout # <<>> => exit_code \in {-1, 0} /\ Run(State).exit_code = 0

C4_Witness ==
    Done /\ exit_code = 2 /\ file_size.some /\ stdout = <<>> /\ stderr # <<>>

\* the five lines of the documented output
ExpectedLines ==
    LET z == Get(sizes)
    IN  << <<Lit("file size ("), Arg(args[2]), Lit(" "), Arg(args[3]), Lit("):")>>,
           <<Lit("   bytes: ")>> \o z.bytes,
           <<Lit("   kilobytes: ")>> \o z.kilobytes,
           <<Lit("   megabytes: ")>> \o z.megabytes,
           <<Lit("   gigabytes: ")>> \o z.gigabytes >>

\* C5, as stated: a successful run's standard output is exactly five lines,
\* the header echoing the two arguments and the four sizes in order, and
\* nothing else; the run exits with 0.
C5_Original ==
    Succeeded => Lines(stdout) = ExpectedLines

\* What the program writes: the five lines and then an empty sixth.
C5_Observed ==
    Succeeded => Lines(stdout) = ExpectedLines \o << <<>> >>

\* C6, as stated (over magnitudes whose byte count fits in a u64): the byte
\* count is the magnitude times the unit's decimal factor, truncated.
C6_Original ==
    Succeeded /\ DecimalRun /\ Less(ExpectedBytes, TwoTo64)
        => Get(size_in_bytes) = ExpectedBytes

C8_CaseInsensitive ==
    Done /\ TwoArgs
        => \A u \in UnitTexts :
              ( /\ u.kind = "word" /\ args[3].kind = "word"
                /\ SameIgnoringCase(u.chars, args[3].chars)
                /\ u # args[3] )
                  => LET r == Run(Start(<<args[1], args[2], u>>))
                     IN  /\ r.exit_code = exit_code
                         /\ OutcomeOf(r) = Outcome
                         /\ r.size_in_bytes = size_in_bytes
                         /\ r.sizes = sizes

C8_Witness ==
    /\ Succeeded /\ TwoArgs
    /\ args[2] = Dec(FALSE, 5, 0) /\ args[3] = Word(<<"K", "b">>)
    /\ Get(size_in_bytes) = NatOf(5000)

\* |h / 100 - n / d| <= 1 / 200: h hundredths is a nearest one to n / d
Nearest(h, n, d) ==
    LET a == MulSmall(MulBig(h, NatOf(d)), 2)
        b == MulSmall(n, 200)
    IN  Leq(a, Add(b, NatOf(d))) /\ Leq(b, Add(a, NatOf(d)))

Shows(field, n, d, suffix) ==
    /\ Len(field) = 2 /\ field[1].k = "num" /\ field[2] = Lit(suffix)
    /\ Len(field[1].v[1].frac) = 2
    /\ Nearest(Hundredths(field), n, d)

\* C9, as stated: for every byte count n, from_bytes gives n itself followed
\* by " bytes", and n / 1,000, n / 1,000,000 and n / 1,000,000,000 rounded to
\* two digits after the point (a tie may go either way) with their units.
C9_Original ==
    pc = "returned"
        => LET n == Get(size_in_bytes)
               z == Get(sizes)
           IN  /\ Len(z.bytes) = 2 /\ z.bytes[2] = Lit(" bytes")
               /\ z.bytes[1].v[1].frac = <<>>
               /\ OfDecDigits(z.bytes[1].v[1].int) = n
               /\ Shows(z.kilobytes, n, 1000, " kb")
               /\ Shows(z.megabytes, n, 1000000, " mb")
               /\ Shows(z.gigabytes, n, 1000000000, " gb")

\* C10: main validates the count, then the magnitude, then the unit, and
\* calls FileSize::new with a magnitude that is >= 0 (never negative, never
\* NaN) and a lowercase unit of the four, so FileSize::new never returns Err
\* and no exit code comes from the match on its message.
C10_NewNeverFails ==
    /\ file_size.some
          => /\ TwoArgs
             /\ Get(file_size).cls # "nan"
             /\ ~(Get(file_size).neg /\ (Get(file_size).cls = "inf" \/ Get(file_size).man # <<>>))
    /\ unit.some
          => /\ file_size.some
             /\ Get(unit) \in {<<"b", "y", "t", "e", "s">>, <<"k", "b">>,
                               <<"m", "b">>, <<"g", "b">>}
    /\ pc = "create" => unit.some
    /\ result.some => Get(result).ok /\ exit_code \in {-1, 0}
    /\ exit_code \in {2, 4} => result = None

C10_Witness ==
    /\ result.some /\ Get(result).ok
    /\ args[3].chars = <<"G", "B">>
    /\ args[2] = Dec(TRUE, 0, 0)
    /\ Done

====
